---- MODULE Spec2Model ----
(***************************************************************************)
(* A model of ast-toolkit2: the location algebra (Range, Length, Loc) and  *)
(* the nibble parsing protocol (slice-backed streams, tag parsers, and the *)
(* Option<T> / Vec<T> composites, in the by-value and by-reference         *)
(* variants).                                                              *)
(***************************************************************************)
EXTENDS Integers, Sequences, FiniteSets

VARIABLES
    op,         \* the operation that has been applied ("none" before any)
    self,       \* Range: the receiver before the call
    other,      \* Range: the argument
    ret,        \* Range: the receiver after the call / the returned copy
    loc,        \* Loc: the receiver before the call
    loc_other,  \* Loc: the argument
    loc_ret,    \* Loc: the receiver after the call / the returned copy
    TAG,        \* the tag type's TAG: the literal sequence of elements
    data,       \* the backing buffer of the stream / of the slice
    pos,        \* CopiedStream::pos, the cursor of the by-reference stream
    input,      \* the by-value parser's `input: Slice<E>` (reassigned by Vec)
    pc,         \* "idle", inside a Vec<T>::parse loop, or "done"
    res,        \* Vec<T>::parse's `res`
    out,        \* what the finished call returned
    calls,      \* history: what each T::parse of the running call returned
    pos0,       \* history: the cursor when the running call began
    input0,     \* history: the input the running call was given
    stream,     \* which slice-backed stream type the cursor is
    c_pos,      \* the cursor of the clone of the stream (once one was taken)
    log,        \* history: the calls made on the stream and on its clone
    arg_x,      \* u64: the first plain argument of the call
    arg_y,      \* u64: the second plain argument of the call
    val,        \* the plain value (u64 or bool) the call returned
    overflow_checks, \* the build: whether u64 arithmetic panics on overflow
    third,      \* Range: a second argument, for two calls in a row
    fields,     \* the Locs of the fields of a product / values of a collection
    turns       \* the turns of a Vec<T>::parse loop after MaxItems items, modulo 2

rangeVars == <<self, other, ret>>

locVars == <<loc, loc_other, loc_ret>>

nibbleVars == <<TAG, data, pos, input, pc, res, out, calls, pos0, input0>>

streamVars == <<stream, c_pos, log>>

argVars == <<arg_x, arg_y, val>>

auxVars == <<overflow_checks, third, fields, turns>>

vars == <<op, rangeVars, locVars, nibbleVars, streamVars, argVars, auxVars>>

(***************************************************************************)
(* Bounds.  u64 is modelled as 0..U64_MAX: every operation of range.rs     *)
(* that can leave the type saturates or is a checked subtraction, so the   *)
(* width is a parameter of the model.                                      *)
(***************************************************************************)
U64_MAX == 7

NumSources == 2

MaxLocPos == 2

MaxLocLen == 2

\* The stream's elements are 1..NumBytes; buffers hold at most MaxLen of them,
\* tags at most MaxTagLen.
NumBytes == 2

MaxLen == 3

MaxTagLen == 2

\* A Vec<T>::parse is followed for at most MaxItems matched items.
MaxItems == 3

\* The abstract element parser has NumErrs distinct hard errors.
NumErrs == 2

\* A stream and its clone are followed for at most MaxCalls calls.
MaxCalls == 5

\* The most fields of a product, and the most values of a map.
MaxFields == 3

U64 == 0..U64_MAX

(***************************************************************************)
(* loc/range.rs: helpers                                                   *)
(***************************************************************************)
min(lhs, rhs) == IF lhs <= rhs THEN lhs ELSE rhs

max(lhs, rhs) == IF lhs >= rhs THEN lhs ELSE rhs

\* u64::saturating_add: the sum clipped to the largest value of the type.
saturating_add(x, y) == IF x + y > U64_MAX THEN U64_MAX ELSE x + y

\* The marker for a u64 subtraction that leaves the type (a panic in a
\* debug build, a wrapped value in a release build).
Underflow == "underflow"

\* The unchecked `-` on u64.
u64_sub(x, y) == IF y <= x THEN x - y ELSE Underflow

(***************************************************************************)
(* loc/range.rs: Length and Range                                          *)
(***************************************************************************)
Fixed(n) == [fixed |-> TRUE, n |-> n]

Indefinite == [fixed |-> FALSE, n |-> 0]

Length == {Fixed(n) : n \in U64} \cup {Indefinite}

Range == [pos : U64, len : Length]

Range_full == [pos |-> 0, len |-> Indefinite]

Range_empty == [pos |-> 0, len |-> Fixed(0)]

\* An equality on the raw fields, as a derived PartialEq would be.
M_Range_eq_raw_fields(x, y) == x.pos = y.pos /\ x.len = y.len

\* <Range as PartialEq>::eq
Range_eq(x, y) ==
    IF x.len.fixed /\ y.len.fixed
    THEN x.pos = y.pos /\ saturating_add(x.pos, x.len.n) = saturating_add(y.pos, y.len.n)
    ELSE IF ~x.len.fixed /\ ~y.len.fixed
    THEN x.pos = y.pos
    ELSE FALSE

\* A shrink that does not clip the offset to the receiver's length.
M_Range_shrink_unclipped(s, o) ==
    IF s.len.fixed
    THEN IF o.len.fixed
         THEN [pos |-> saturating_add(s.pos, o.pos), len |-> Fixed(min(o.len.n, s.len.n))]
         ELSE [pos |-> saturating_add(s.pos, o.pos), len |-> Fixed(s.len.n)]
    ELSE [pos |-> saturating_add(s.pos, o.pos), len |-> o.len]

\* A shrink that moves the start but does not take the offset off the length.
M_Range_shrink_keep_length(s, o) ==
    IF s.len.fixed
    THEN LET lhs == s.len.n
             delta == min(o.pos, lhs)
         IN  IF o.len.fixed
             THEN [pos |-> saturating_add(s.pos, delta), len |-> Fixed(min(o.len.n, lhs))]
             ELSE [pos |-> saturating_add(s.pos, delta), len |-> Fixed(lhs)]
    ELSE [pos |-> saturating_add(s.pos, o.pos), len |-> o.len]

\* A shrink that takes the argument's length in every arm.
M_Range_shrink_other_length(s, o) ==
    IF s.len.fixed
    THEN [pos |-> saturating_add(s.pos, min(o.pos, s.len.n)), len |-> o.len]
    ELSE [pos |-> saturating_add(s.pos, o.pos), len |-> o.len]

\* Range::shrink: the value of *self after the call.
Range_shrink(s, o) ==
    IF s.len.fixed
    THEN LET lhs == s.len.n
             delta == min(o.pos, lhs)
         IN  IF o.len.fixed
             THEN [pos |-> saturating_add(s.pos, delta),
                   len |-> Fixed(min(o.len.n, u64_sub(lhs, delta)))]
             ELSE [pos |-> saturating_add(s.pos, delta),
                   len |-> Fixed(u64_sub(lhs, delta))]
    ELSE [pos |-> saturating_add(s.pos, o.pos), len |-> o.len]

\* Range::slice: defers to the in-place variant on a copy.
Range_slice(s, o) == Range_shrink(s, o)

\* An extend that keeps the receiver's end and ignores the argument's.
M_Range_extend_own_end(s, o) ==
    IF s.len.fixed /\ o.len.fixed
    THEN LET new_end == saturating_add(s.pos, s.len.n)
             new_pos == min(s.pos, o.pos)
         IN  [pos |-> new_pos, len |-> Fixed(u64_sub(new_end, new_pos))]
    ELSE [pos |-> min(s.pos, o.pos), len |-> Indefinite]

\* An extend that is Indefinite only when both ranges are.
M_Range_extend_fixed_wins(s, o) ==
    IF s.len.fixed /\ o.len.fixed
    THEN LET new_end == max(saturating_add(s.pos, s.len.n), saturating_add(o.pos, o.len.n))
             new_pos == min(s.pos, o.pos)
         IN  [pos |-> new_pos, len |-> Fixed(u64_sub(new_end, new_pos))]
    ELSE IF s.len.fixed THEN [pos |-> min(s.pos, o.pos), len |-> s.len]
    ELSE [pos |-> min(s.pos, o.pos), len |-> o.len]

\* Range::extend: the value of *self after the call.
Range_extend(s, o) ==
    IF s.len.fixed /\ o.len.fixed
    THEN LET new_end == max(saturating_add(s.pos, s.len.n), saturating_add(o.pos, o.len.n))
             new_pos == min(s.pos, o.pos)
         IN  [pos |-> new_pos, len |-> Fixed(u64_sub(new_end, new_pos))]
    ELSE [pos |-> min(s.pos, o.pos), len |-> Indefinite]

\* Range::join: defers to the in-place variant on a copy.
Range_join(s, o) == Range_extend(s, o)

\* The outcome of an operation that panicked: a value outside u64.
Panic == -1

\* The unchecked `+` on u64: when the sum leaves the type, a build with
\* overflow checks (debug) panics and one without (release) wraps.
u64_add(x, y) ==
    IF x + y > U64_MAX
    THEN IF overflow_checks THEN Panic ELSE (x + y) % (U64_MAX + 1)
    ELSE x + y

saturating_sub(x, y) == IF y <= x THEN x - y ELSE 0

\* From<ops::RangeInclusive<T>> for Range
Range_from_inclusive(start, end) ==
    IF start <= end
    THEN [pos |-> start, len |-> Fixed(u64_add(1, saturating_sub(end, start)))]
    ELSE [pos |-> start, len |-> Fixed(0)]

\* Range::bounded
Range_bounded(start, end) == [pos |-> 0, len |-> Fixed(saturating_sub(end, start))]

\* A conversion that reads an inverted interval backwards.
M_Range_from_range_reordered(start, end) ==
    IF start <= end
    THEN [pos |-> start, len |-> Fixed(end - start)]
    ELSE [pos |-> end, len |-> Fixed(start - end)]

\* From<ops::Range<T>> for Range
Range_from_range(start, end) == [pos |-> start, len |-> Fixed(saturating_sub(end, start))]

\* From<ops::RangeTo<T>> for Range
Range_from_range_to(end) == [pos |-> 0, len |-> Fixed(end)]

\* From<ops::RangeToInclusive<T>> for Range
Range_from_range_to_inclusive(end) == [pos |-> 0, len |-> Fixed(u64_add(1, end))]

\* From<ops::RangeFrom<T>> for Range
Range_from_range_from(start) == [pos |-> start, len |-> Indefinite]

\* From<ops::RangeFull> for Range
Range_from_range_full == [pos |-> 0, len |-> Indefinite]

\* From<()> for Range
Range_from_unit == [pos |-> 0, len |-> Fixed(0)]

\* <Range as PartialEq<ops::Range<T>>>::eq
Range_eq_range(r, start, end) ==
    IF r.len.fixed
    THEN r.pos = start /\ saturating_add(r.pos, r.len.n) = end
    ELSE FALSE

\* <Range as PartialEq<ops::RangeFrom<T>>>::eq
Range_eq_range_from(r, start) == IF r.len.fixed THEN FALSE ELSE r.pos = start

\* <Range as PartialEq<ops::RangeTo<T>>>::eq
Range_eq_range_to(r, end) == IF r.len.fixed THEN r.pos = 0 /\ r.len.n = end ELSE FALSE

\* <Range as PartialEq<ops::RangeFull>>::eq
Range_eq_range_full(r) == IF r.len.fixed THEN FALSE ELSE r.pos = 0

\* <Range as PartialEq<()>>::eq
Range_eq_unit(r) == r.len = Fixed(0)

\* <Range as Debug>::fmt (and Display, which defers to it): what is written,
\* as the start index if any, "!" or "..", and the end index if any.
Range_fmt(r) ==
    [start |-> IF r.pos > 0 THEN <<r.pos>> ELSE <<>>,
     body |-> IF r.len = Fixed(0) THEN "!" ELSE "..",
     end |-> IF r.len.fixed /\ r.len.n # 0 THEN <<u64_add(r.pos, r.len.n)>> ELSE <<>>]

\* <Range as Hash>::hash: what is fed to the hasher.
Range_hash(r) ==
    IF r.len.fixed THEN <<r.pos, 0, saturating_add(r.pos, r.len.n)>> ELSE <<r.pos, 1>>

\* Range::start
Range_start(r) == r.pos

\* Range::end: Some(end) as <<end>>, None as <<>>.
Range_end(r) == IF r.len.fixed THEN <<saturating_add(r.pos, r.len.n)>> ELSE <<>>

\* An end_in that does not bound a fixed end by the sequence's length.
M_Range_end_in_unbounded(r, max_len) ==
    IF r.len.fixed THEN saturating_add(r.pos, r.len.n) ELSE max_len

\* Range::end_in
Range_end_in(r, max_len) ==
    IF r.len.fixed THEN min(saturating_add(r.pos, r.len.n), max_len) ELSE max_len

(***************************************************************************)
(* loc/mod.rs: Loc                                                         *)
(***************************************************************************)
None == [some |-> FALSE, id |-> 0]

Some(id) == [some |-> TRUE, id |-> id]

Sources == {None} \cup {Some(i) : i \in 1..NumSources}

LocRanges ==
    [pos : 0..MaxLocPos, len : {Fixed(n) : n \in 0..MaxLocLen} \cup {Indefinite}]

Loc == [source : Sources, range : LocRanges]

Loc_new == [source |-> None, range |-> Range_empty]

\* An extend that merges the ranges whatever the sources are.
M_Loc_extend_any_source(l, o) == [source |-> l.source, range |-> Range_extend(l.range, o.range)]

\* Loc::extend: the value of *self after the call.
Loc_extend(l, o) ==
    IF l.source.some /\ o.source.some /\ l.source.id = o.source.id
    THEN [source |-> l.source, range |-> Range_extend(l.range, o.range)]
    ELSE IF ~l.source.some /\ ~o.source.some
    THEN [source |-> l.source, range |-> Range_extend(l.range, o.range)]
    ELSE l

\* Loc::join: defers to the in-place variant on a copy.
Loc_join(l, o) == Loc_extend(l, o)

\* Loc::end_in
Loc_end_in(l, max_len) == Range_end_in(l.range, max_len)

\* Loc::start
Loc_start(l) == Range_start(l.range)

\* Loc::end
Loc_end(l) == Range_end(l.range)

\* A shrink that forgets which source the Loc is in.
M_Loc_shrink_drop_source(l, r) == [source |-> None, range |-> Range_shrink(l.range, r)]

\* Loc::shrink: the value of *self after the call.
Loc_shrink(l, r) == [source |-> l.source, range |-> Range_shrink(l.range, r)]

\* Loc::slice: defers to the in-place variant on a copy.
Loc_slice(l, r) == Loc_shrink(l, r)

\* <Loc as PartialEq>::eq
Loc_eq(a, b) == TRUE

\* <Loc as PartialEq>::ne
Loc_ne(a, b) == FALSE

\* <Loc as PartialOrd>::partial_cmp: Some(ordering) as <<ordering>>.
Loc_partial_cmp(a, b) == <<"Equal">>

\* <Loc as Ord>::cmp
Loc_cmp(a, b) == "Equal"

\* <Loc as Hash>::hash: what is fed to the hasher.
Loc_hash(l) == <<>>

\* A strict equality that looks at the source only.
M_TestLoc_eq_source_only(a, b) == a.source = b.source

\* loc/test.rs: <TestLoc as PartialEq>::eq
TestLoc_eq(a, b) == a.source = b.source /\ Range_eq(a.range, b.range)


(***************************************************************************)
(* nibble: results, errors and values                                      *)
(***************************************************************************)
\* error.rs: Needed, and the Option<Needed> of NibbleError::Unmatched.
Bounded(lo, hi) == [kind |-> "Bounded", min |-> lo, max |-> hi]

AtLeast(lo) == [kind |-> "AtLeast", min |-> lo, max |-> lo]

Unknown == [kind |-> "Unknown", min |-> 0, max |-> 0]

NoNeeded == [hint |-> FALSE, needed |-> Unknown]

SomeNeeded(n) == [hint |-> TRUE, needed |-> n]

\* By-value results: Ok((value, remainder)), Err(NibbleError::Unmatched(_, needed)),
\* Err(NibbleError::Error(err)).  The formatter of Unmatched is fixed by the
\* type and carries no data.
Ok(v, rem) == [tag |-> "Ok", val |-> v, rem |-> rem]

ErrUnmatched(needed) == [tag |-> "Unmatched", needed |-> needed]

ErrError(e) == [tag |-> "Error", err |-> e]

\* By-reference results: Ok(Some(value)), Ok(None), Err(NibbleError::Syntax(err)),
\* Err(NibbleError::Stream(err)).
OkSome(v) == [tag |-> "Some", val |-> v]

OkNone == [tag |-> "None"]

ErrSyntax(e) == [tag |-> "Syntax", err |-> e]

ErrStream(e) == [tag |-> "Stream", err |-> e]

\* vec.rs: Error { pos, err }
VecError(k, e) == [pos |-> k, err |-> e]

\* The value of an Option<T>.
OptSome(v) == [some |-> TRUE, v |-> <<v>>]

OptNone == [some |-> FALSE, v |-> <<>>]

\* Tag::with_loc / Utf8Tag::with_loc: the tag value holds its Loc.
with_loc(l) == [loc |-> l]

\* What had no value yet.
Nothing == [tag |-> "nothing"]

Bytes == 1..NumBytes

Errs == 1..NumErrs

SeqsUpTo(S, n) == UNION {[1..k -> S] : k \in 0..n}

(***************************************************************************)
(* nibble/stream/copied.rs: the slice-backed stream                        *)
(***************************************************************************)
\* `self.slice.as_ptr() as u64`: the base address of the one buffer.
as_ptr(buf) == 1

\* Loc::encapsulate_range
encapsulate_range(id, range) == [source |-> Some(id), range |-> range]

\* A next whose Loc spans everything read so far.
M_CopiedStream_next_span_from_start(buf, p) ==
    IF p >= Len(buf)
    THEN [res |-> OkNone, pos |-> p]
    ELSE [res |-> OkSome([elem |-> buf[p + 1],
                          loc |-> encapsulate_range(as_ptr(buf), Range_from_inclusive(0, p))]),
          pos |-> p + 1]

\* CopiedStream::next at cursor p: the result and the cursor afterwards.
CopiedStream_next(buf, p) ==
    IF p >= Len(buf)
    THEN [res |-> OkNone, pos |-> p]
    ELSE [res |-> OkSome([elem |-> buf[p + 1],
                          loc |-> encapsulate_range(as_ptr(buf), Range_from_inclusive(p, p))]),
          pos |-> p + 1]

\* SliceParser::next at cursor p: the result and the cursor afterwards.
SliceParser_next(buf, p) ==
    IF p >= Len(buf)
    THEN [res |-> OkNone, pos |-> p]
    ELSE [res |-> OkSome([elem |-> buf[p + 1],
                          loc |-> encapsulate_range(as_ptr(buf), Range_from_inclusive(p, p))]),
          pos |-> p + 1]

\* A clone that starts over at the first element.
M_CopiedStream_clone_rewound(buf, p) == [slice |-> buf, pos |-> 0]

\* <CopiedStream as Clone>::clone: the stream that is returned.
CopiedStream_clone(buf, p) == [slice |-> buf, pos |-> p]

\* <SliceParser as Clone>::clone
SliceParser_clone(buf, p) == [slice |-> buf, pos |-> p]

\* A commit that drops the elements before the cursor.
M_CopiedStream_commit_discard(buf, p) == [slice |-> SubSeq(buf, p + 1, Len(buf)), pos |-> 0]

\* CopiedStream::commit: the stream after the call.
CopiedStream_commit(buf, p) == [slice |-> buf, pos |-> p]

\* SliceParser::commit
SliceParser_commit(buf, p) == [slice |-> buf, pos |-> p]

StreamTypes == {"CopiedStream", "SliceParser"}

\* The ParseStream methods of the stream type `ty`.
ParseStream_next(ty, buf, p) ==
    IF ty = "SliceParser" THEN SliceParser_next(buf, p) ELSE CopiedStream_next(buf, p)

ParseStream_clone(ty, buf, p) ==
    IF ty = "SliceParser" THEN SliceParser_clone(buf, p) ELSE CopiedStream_clone(buf, p)

ParseStream_commit(ty, buf, p) ==
    IF ty = "SliceParser" THEN SliceParser_commit(buf, p) ELSE CopiedStream_commit(buf, p)

(***************************************************************************)
(* nibble/utf8_tag.rs: the by-reference tag parser                         *)
(***************************************************************************)
RECURSIVE Utf8Tag_parse_from(_, _, _, _, _)
\* The `for tag_b in Self::TAG.bytes()` loop from the i-th byte of the tag,
\* with the cursor at p and the Loc built so far in acc (<<>> for None).
Utf8Tag_parse_from(tg, buf, i, p, acc) ==
    IF i > Len(tg)
    THEN [res |-> OkSome(with_loc(IF acc = <<>> THEN Loc_new ELSE acc[1])), pos |-> p]
    ELSE LET n == CopiedStream_next(buf, p)
         IN  IF n.res.tag = "None"
             THEN [res |-> OkNone, pos |-> n.pos]
             ELSE IF tg[i] # n.res.val.elem
             THEN [res |-> OkNone, pos |-> n.pos]
             ELSE Utf8Tag_parse_from(tg, buf, i + 1, n.pos,
                      IF acc = <<>> THEN <<n.res.val.loc>>
                      ELSE <<Loc_extend(acc[1], n.res.val.loc)>>)

\* <T as Parsable<u8>>::parse for T: Utf8Tag, on a stream with its cursor at p.
Utf8Tag_parse(tg, buf, p) == Utf8Tag_parse_from(tg, buf, 1, p, <<>>)

(***************************************************************************)
(* nibble/vec.rs: the by-reference repetition                              *)
(***************************************************************************)
\* ResultExt::map_syntax with the closure |err| Error { pos: res.len(), err }
map_syntax(r, len) == IF r.tag = "Syntax" THEN ErrSyntax(VecError(len, r.err)) ELSE r

\* A loop that reports no match when nothing was matched.
M_Vec_parse_iter_none_when_empty(v, r) ==
    LET m == map_syntax(r, Len(v))
    IN  IF m.tag \in {"Syntax", "Stream"}
        THEN [loop |-> FALSE, res |-> v, out |-> m]
        ELSE IF m.tag = "Some"
        THEN [loop |-> TRUE, res |-> Append(v, m.val), out |-> Nothing]
        ELSE [loop |-> FALSE, res |-> v, out |-> IF v = <<>> THEN OkNone ELSE OkSome(v)]

\* A loop that counts the failing element from one.
M_Vec_parse_iter_one_based(v, r) ==
    LET m == map_syntax(r, Len(v) + 1)
    IN  IF m.tag \in {"Syntax", "Stream"}
        THEN [loop |-> FALSE, res |-> v, out |-> m]
        ELSE IF m.tag = "Some"
        THEN [loop |-> TRUE, res |-> Append(v, m.val), out |-> Nothing]
        ELSE [loop |-> FALSE, res |-> v, out |-> OkSome(v)]

\* One evaluation of the `while let` head and, if it matches, the body:
\* r is what input.parse::<T>() returned, v is `res`.
Vec_parse_iter(v, r) ==
    LET m == map_syntax(r, Len(v))
    IN  IF m.tag \in {"Syntax", "Stream"}
        THEN [loop |-> FALSE, res |-> v, out |-> m]
        ELSE IF m.tag = "Some"
        THEN [loop |-> TRUE, res |-> Append(v, m.val), out |-> Nothing]
        ELSE [loop |-> FALSE, res |-> v, out |-> OkSome(v)]

(***************************************************************************)
(* nibble/impls: the by-value parsers over a Slice                         *)
(***************************************************************************)
\* A Slice is a view of a source: the source's id, the offset of the view in
\* the source, and the elements it views.
Slice_with_raw_id(id, elems) == [id |-> id, off |-> 0, elems |-> elems]

\* Slice::slice(k..)
Slice_from(sl, k) ==
    [id |-> sl.id, off |-> sl.off + k, elems |-> SubSeq(sl.elems, k + 1, Len(sl.elems))]

\* Slice::head_slice_loc(n): the first (at most) n elements with their Loc,
\* and the rest.
head_slice_loc(sl, n) ==
    LET k == min(n, Len(sl.elems))
    IN  [head |-> SubSeq(sl.elems, 1, k),
         loc |-> encapsulate_range(sl.id, [pos |-> sl.off, len |-> Fixed(k)]),
         rem |-> Slice_from(sl, k)]

\* The `for (h, t) in head.zip(TAG)` loop: some pair differs.
Diverges(head, tg) == \E i \in 1..min(Len(head), Len(tg)) : head[i] # tg[i]

\* A tag parser that reports running out of input as a plain mismatch.
M_Tag_parse_no_hint(tg, sl) ==
    LET h == head_slice_loc(sl, Len(tg))
    IN  IF Diverges(h.head, tg)
        THEN ErrUnmatched(NoNeeded)
        ELSE IF Len(h.head) >= Len(tg)
        THEN Ok(with_loc(h.loc), h.rem)
        ELSE ErrUnmatched(NoNeeded)

\* impls/tag.rs: <T as Parsable<E>>::parse for T: Tag<E>
Tag_parse(tg, sl) ==
    LET h == head_slice_loc(sl, Len(tg))
    IN  IF Diverges(h.head, tg)
        THEN ErrUnmatched(NoNeeded)
        ELSE IF Len(h.head) >= Len(tg)
        THEN Ok(with_loc(h.loc), h.rem)
        ELSE LET needed == Len(tg) - Len(h.head)
             IN  ErrUnmatched(SomeNeeded(Bounded(needed, needed)))

\* impls/utf8_tag.rs: <T as Parsable<u8>>::parse for T: Utf8Tag
Utf8Tag_parse_value(tg, sl) ==
    LET h == head_slice_loc(sl, Len(tg))
    IN  IF Diverges(h.head, tg)
        THEN ErrUnmatched(NoNeeded)
        ELSE IF Len(h.head) >= Len(tg)
        THEN Ok(with_loc(h.loc), h.rem)
        ELSE LET needed == Len(tg) - Len(h.head)
             IN  ErrUnmatched(SomeNeeded(Bounded(needed, needed)))

\* An Option that passes a non-match with a Needed hint on.
M_Option_parse_hint_unmatched(r, sl) ==
    IF r.tag = "Ok" THEN Ok(OptSome(r.val), r.rem)
    ELSE IF r.tag = "Unmatched"
    THEN IF r.needed.hint THEN r ELSE Ok(OptNone, sl)
    ELSE ErrError(r.err)

\* impls/option.rs: <Option<T> as Parsable<E>>::parse, r being what
\* T::parse(input) returned.
Option_parse(r, sl) ==
    IF r.tag = "Ok" THEN Ok(OptSome(r.val), r.rem)
    ELSE IF r.tag = "Unmatched" THEN Ok(OptNone, sl)
    ELSE ErrError(r.err)

\* error.rs: ResultExt::transpose, to the by-reference shapes with the
\* (value, remainder) pair as the value.
transpose(r) ==
    IF r.tag = "Ok" THEN OkSome([item |-> r.val, rem |-> r.rem])
    ELSE IF r.tag = "Unmatched" THEN OkNone
    ELSE ErrError(r.err)

\* error.rs: ResultExt::auto_map; Vec's Error is T::Error, so `into` keeps it.
auto_map(r) == r

\* A loop that returns the input it was given.
M_Vec_parse_value_iter_keep_input(v, sl, r) ==
    LET m == auto_map(transpose(r))
    IN  IF m.tag = "Error"
        THEN [loop |-> FALSE, res |-> v, input |-> sl, out |-> m]
        ELSE IF m.tag = "Some"
        THEN [loop |-> TRUE, res |-> Append(v, m.val.item), input |-> sl, out |-> Nothing]
        ELSE [loop |-> FALSE, res |-> v, input |-> sl, out |-> Ok(v, sl)]

\* impls/vec.rs: one evaluation of the `while let` head and, if it matches,
\* the body: r is what input.parse::<T>() returned, v is `res`, sl is `input`.
Vec_parse_value_iter(v, sl, r) ==
    LET m == auto_map(transpose(r))
    IN  IF m.tag = "Error"
        THEN [loop |-> FALSE, res |-> v, input |-> sl, out |-> m]
        ELSE IF m.tag = "Some"
        THEN [loop |-> TRUE, res |-> Append(v, m.val.item), input |-> m.val.rem, out |-> Nothing]
        ELSE [loop |-> FALSE, res |-> v, input |-> sl, out |-> Ok(v, sl)]

(***************************************************************************)
(* The element parser T of Option<T> and Vec<T> when it is not a tag: what *)
(* a Parsable may return.                                                  *)
(***************************************************************************)
\* An item of T, named by the elements it was matched from.
Item(from, to) == [from |-> from, to |-> to]

NeededHints == {NoNeeded, SomeNeeded(Bounded(1, 1)), SomeNeeded(AtLeast(1)), SomeNeeded(Unknown)}

\* By value: a match of any number of elements, a non-match with any hint,
\* or a hard error.
T_parse_value(sl) ==
    {Ok(Item(sl.off, sl.off + k), Slice_from(sl, k)) : k \in 0..Len(sl.elems)}
        \cup {ErrUnmatched(n) : n \in NeededHints}
        \cup {ErrError(e) : e \in Errs}

\* By reference, with the cursor at p: each result with the cursor after it.
T_parse(buf, p) ==
    UNION {
        {[res |-> OkSome(Item(p, p + k)), pos |-> p + k], [res |-> OkNone, pos |-> p + k]}
            \cup {[res |-> ErrSyntax(e), pos |-> p + k] : e \in Errs}
            \cup {[res |-> ErrStream(e), pos |-> p + k] : e \in Errs}
        : k \in 0..(Len(buf) - p)}

(***************************************************************************)
(* The range algebra: one call on a pair of ranges.                        *)
(***************************************************************************)
RangeIdle == self = Range_empty /\ other = Range_empty /\ ret = Range_empty

LocIdle == loc = Loc_new /\ loc_other = Loc_new /\ loc_ret = Loc_new

NibbleIdle ==
    /\ TAG = <<>> /\ data = <<>> /\ pos = 0
    /\ input = Slice_with_raw_id(as_ptr(<<>>), <<>>)
    /\ pc = "idle" /\ res = <<>> /\ out = Nothing /\ calls = <<>>
    /\ pos0 = 0 /\ input0 = input

StreamIdle == stream = "CopiedStream" /\ c_pos = 0 /\ log = <<>>

ArgIdle == arg_x = 0 /\ arg_y = 0 /\ val = 0

AuxIdle ==
    /\ overflow_checks = TRUE
    /\ third = [pos |-> 0, len |-> Fixed(0)]
    /\ fields = <<>>
    /\ turns = 0

InitRange ==
    /\ op = "none"
    /\ AuxIdle
    /\ StreamIdle
    /\ ArgIdle
    /\ self \in Range
    /\ other \in Range
    /\ ret = self
    /\ LocIdle
    /\ NibbleIdle

shrink ==
    /\ op = "none"
    /\ ret' = Range_shrink(self, other)
    /\ op' = "shrink"
    /\ UNCHANGED <<auxVars, argVars, streamVars, self, other, locVars, nibbleVars>>

slice ==
    /\ op = "none"
    /\ ret' = Range_slice(self, other)
    /\ op' = "slice"
    /\ UNCHANGED <<auxVars, argVars, streamVars, self, other, locVars, nibbleVars>>

extend ==
    /\ op = "none"
    /\ ret' = Range_extend(self, other)
    /\ op' = "extend"
    /\ UNCHANGED <<auxVars, argVars, streamVars, self, other, locVars, nibbleVars>>

join ==
    /\ op = "none"
    /\ ret' = Range_join(self, other)
    /\ op' = "join"
    /\ UNCHANGED <<auxVars, argVars, streamVars, self, other, locVars, nibbleVars>>

\* self == other
eq ==
    /\ op = "none"
    /\ val' = Range_eq(self, other)
    /\ op' = "eq"
    /\ UNCHANGED <<auxVars, arg_x, arg_y, streamVars, rangeVars, locVars, nibbleVars>>

NextRange == shrink \/ slice \/ extend \/ join \/ eq

SpecRange == InitRange /\ [][NextRange]_vars

(***************************************************************************)
(* The end of a range, and of a Loc over it, in a sequence of a given      *)
(* length.                                                                 *)
(***************************************************************************)
InitRangeEnd ==
    /\ op = "none"
    /\ overflow_checks \in BOOLEAN
    /\ third = Range_empty /\ fields = <<>> /\ turns = 0
    /\ StreamIdle
    /\ arg_x \in U64 /\ arg_y = 0 /\ val = 0
    /\ self \in Range
    /\ other = Range_empty
    /\ ret = self
    /\ loc \in [source : Sources, range : {self}]
    /\ loc_other = Loc_new
    /\ loc_ret = loc
    /\ NibbleIdle

\* self.end_in(max_len), max_len being arg_x
end_in ==
    /\ op = "none"
    /\ val' = Range_end_in(self, arg_x)
    /\ op' = "end_in"
    /\ UNCHANGED <<auxVars, arg_x, arg_y, streamVars, rangeVars, locVars, nibbleVars>>

\* loc.end_in(max_len), max_len being arg_x
loc_end_in ==
    /\ op = "none"
    /\ val' = Loc_end_in(loc, arg_x)
    /\ op' = "loc_end_in"
    /\ UNCHANGED <<auxVars, arg_x, arg_y, streamVars, rangeVars, locVars, nibbleVars>>

\* self.end()
end ==
    /\ op = "none"
    /\ val' = Range_end(self)
    /\ op' = "end"
    /\ UNCHANGED <<auxVars, arg_x, arg_y, streamVars, rangeVars, locVars, nibbleVars>>

\* format!("{:?}", self)
fmt ==
    /\ op = "none"
    /\ val' = Range_fmt(self)
    /\ op' = "fmt"
    /\ UNCHANGED <<auxVars, arg_x, arg_y, streamVars, rangeVars, locVars, nibbleVars>>

\* self.hash(state)
hash ==
    /\ op = "none"
    /\ val' = Range_hash(self)
    /\ op' = "hash"
    /\ UNCHANGED <<auxVars, arg_x, arg_y, streamVars, rangeVars, locVars, nibbleVars>>

NextRangeEnd == end_in \/ loc_end_in \/ end \/ fmt \/ hash

SpecRangeEnd == InitRangeEnd /\ [][NextRangeEnd]_vars

(***************************************************************************)
(* The constructors of a range from plain indices: the conversions from    *)
(* the interval notations, and Range::bounded.                             *)
(***************************************************************************)
InitRangeFrom ==
    /\ op = "none"
    /\ overflow_checks \in BOOLEAN
    /\ third = Range_empty /\ fields = <<>> /\ turns = 0
    /\ StreamIdle
    /\ arg_x \in U64 /\ arg_y \in U64 /\ val = 0
    /\ RangeIdle
    /\ LocIdle
    /\ NibbleIdle

\* What every constructor leaves alone.
FromFrame == UNCHANGED <<auxVars, arg_x, arg_y, val, streamVars, self, other, locVars, nibbleVars>>

\* Range::from(arg_x..arg_y)
from_range ==
    /\ op = "none"
    /\ ret' = Range_from_range(arg_x, arg_y)
    /\ op' = "from(x..y)"
    /\ FromFrame

\* Range::from(arg_x..=arg_y)
from_range_inclusive ==
    /\ op = "none"
    /\ ret' = Range_from_inclusive(arg_x, arg_y)
    /\ op' = "from(x..=y)"
    /\ FromFrame

\* Range::from(..arg_y)
from_range_to ==
    /\ op = "none"
    /\ ret' = Range_from_range_to(arg_y)
    /\ op' = "from(..y)"
    /\ FromFrame

\* Range::from(..=arg_y)
from_range_to_inclusive ==
    /\ op = "none"
    /\ ret' = Range_from_range_to_inclusive(arg_y)
    /\ op' = "from(..=y)"
    /\ FromFrame

\* Range::from(arg_x..)
from_range_from ==
    /\ op = "none"
    /\ ret' = Range_from_range_from(arg_x)
    /\ op' = "from(x..)"
    /\ FromFrame

\* Range::from(..)
from_range_full ==
    /\ op = "none"
    /\ ret' = Range_from_range_full
    /\ op' = "from(..)"
    /\ FromFrame

\* Range::from(())
from_unit ==
    /\ op = "none"
    /\ ret' = Range_from_unit
    /\ op' = "from(())"
    /\ FromFrame

\* Range::bounded(arg_x, arg_y)
bounded ==
    /\ op = "none"
    /\ ret' = Range_bounded(arg_x, arg_y)
    /\ op' = "bounded"
    /\ FromFrame

\* The comparison that has an impl for the interval a range was built from.
EqOp ==
    [x \in {"from(x..y)", "from(x..)", "from(..y)", "from(..)", "from(())"} |->
        CASE x = "from(x..y)" -> "from(x..y) == x..y"
          [] x = "from(x..)" -> "from(x..) == x.."
          [] x = "from(..y)" -> "from(..y) == ..y"
          [] x = "from(..)" -> "from(..) == .."
          [] x = "from(())" -> "from(()) == ()"]

\* ret == r, for the interval r that ret was converted from
eq_interval ==
    /\ op \in DOMAIN EqOp
    /\ val' = CASE op = "from(x..y)" -> Range_eq_range(ret, arg_x, arg_y)
                [] op = "from(x..)" -> Range_eq_range_from(ret, arg_x)
                [] op = "from(..y)" -> Range_eq_range_to(ret, arg_y)
                [] op = "from(..)" -> Range_eq_range_full(ret)
                [] op = "from(())" -> Range_eq_unit(ret)
    /\ op' = EqOp[op]
    /\ UNCHANGED <<auxVars, arg_x, arg_y, streamVars, rangeVars, locVars, nibbleVars>>

NextRangeFrom ==
    \/ eq_interval
    \/ from_range
    \/ from_range_inclusive
    \/ from_range_to
    \/ from_range_to_inclusive
    \/ from_range_from
    \/ from_range_full
    \/ from_unit
    \/ bounded

SpecRangeFrom == InitRangeFrom /\ [][NextRangeFrom]_vars

(***************************************************************************)
(* The Loc operations: one call on a pair of Locs.                         *)
(***************************************************************************)
InitLoc ==
    /\ op = "none"
    /\ AuxIdle
    /\ StreamIdle
    /\ ArgIdle
    /\ RangeIdle
    /\ loc \in Loc
    /\ loc_other \in Loc
    /\ loc_ret = loc
    /\ NibbleIdle

loc_extend ==
    /\ op = "none"
    /\ loc_ret' = Loc_extend(loc, loc_other)
    /\ op' = "loc_extend"
    /\ UNCHANGED <<auxVars, argVars, streamVars, rangeVars, loc, loc_other, nibbleVars>>

loc_join ==
    /\ op = "none"
    /\ loc_ret' = Loc_join(loc, loc_other)
    /\ op' = "loc_join"
    /\ UNCHANGED <<auxVars, argVars, streamVars, rangeVars, loc, loc_other, nibbleVars>>

LocFrame == UNCHANGED <<auxVars, arg_x, arg_y, streamVars, rangeVars, locVars, nibbleVars>>

\* loc == loc_other
loc_eq ==
    /\ op = "none"
    /\ val' = Loc_eq(loc, loc_other)
    /\ op' = "loc_eq"
    /\ LocFrame

\* loc != loc_other
loc_ne ==
    /\ op = "none"
    /\ val' = Loc_ne(loc, loc_other)
    /\ op' = "loc_ne"
    /\ LocFrame

\* loc.partial_cmp(&loc_other)
loc_partial_cmp ==
    /\ op = "none"
    /\ val' = Loc_partial_cmp(loc, loc_other)
    /\ op' = "loc_partial_cmp"
    /\ LocFrame

\* loc.cmp(&loc_other)
loc_cmp ==
    /\ op = "none"
    /\ val' = Loc_cmp(loc, loc_other)
    /\ op' = "loc_cmp"
    /\ LocFrame

\* loc.hash(state)
loc_hash ==
    /\ op = "none"
    /\ val' = Loc_hash(loc)
    /\ op' = "loc_hash"
    /\ LocFrame

\* TestLoc(loc) == TestLoc(loc_other)
testloc_eq ==
    /\ op = "none"
    /\ val' = TestLoc_eq(loc, loc_other)
    /\ op' = "testloc_eq"
    /\ LocFrame

NextLoc ==
    \/ loc_extend
    \/ loc_join
    \/ loc_eq
    \/ loc_ne
    \/ loc_partial_cmp
    \/ loc_cmp
    \/ loc_hash
    \/ testloc_eq

SpecLoc == InitLoc /\ [][NextLoc]_vars

(***************************************************************************)
(* A range shrunk twice, and shrunk once by a shrunk range.  The ranges    *)
(* are small enough that no offset reaches the maximum.                    *)
(***************************************************************************)
InitShrink ==
    /\ op = "none"
    /\ overflow_checks = TRUE
    /\ third \in LocRanges
    /\ fields = <<>>
    /\ turns = 0
    /\ StreamIdle
    /\ ArgIdle
    /\ self \in LocRanges
    /\ other \in LocRanges
    /\ ret = Range_empty
    /\ LocIdle
    /\ NibbleIdle

\* self.slice(other).slice(third)
slice_slice ==
    /\ op = "none"
    /\ ret' = Range_slice(Range_slice(self, other), third)
    /\ op' = "slice.slice"
    /\ UNCHANGED <<auxVars, argVars, streamVars, self, other, locVars, nibbleVars>>

\* self.slice(other.slice(third)), after the above
slice_composed ==
    /\ op = "slice.slice"
    /\ val' = Range_slice(self, Range_slice(other, third))
    /\ op' = "slice(slice)"
    /\ UNCHANGED <<auxVars, arg_x, arg_y, streamVars, rangeVars, locVars, nibbleVars>>

NextShrink == slice_slice \/ slice_composed

SpecShrink == InitShrink /\ [][NextShrink]_vars

(***************************************************************************)
(* Located: the Loc of a product of Located fields (loc/spec.rs and the     *)
(* derive macro) and of a map of Located values.                           *)
(*                                                                         *)
(* A field is its Loc, whether it carries #[loc], and whether it is named  *)
(* `loc`.  `fields` is the fields in declaration order, or the values of a *)
(* map in the order the map happens to iterate them.                       *)
(***************************************************************************)
Indices(n) == [i \in 1..n |-> i]

find_Ok(idx) == [ok |-> TRUE, idx |-> idx]

find_Err == [ok |-> FALSE, idx |-> <<>>]

\* The toplevel attribute and the shape of the fields.
Kinds == {"all", "new", "named", "unnamed"}

\* A field search that also takes the field named `loc` next to marked ones.
M_find_loc_fields_with_named(kind, fs) ==
    LET n == Len(fs)
        marked == SelectSeq(Indices(n), LAMBDA i : fs[i].attr \/ fs[i].named_loc)
    IN  IF kind = "all" THEN find_Ok(Indices(n))
        ELSE IF kind = "new" THEN find_Ok(<<>>)
        ELSE IF marked # <<>> THEN find_Ok(marked)
        ELSE find_Err

\* derive_located.rs: find_loc_fields
find_loc_fields(kind, fs) ==
    LET n == Len(fs)
        marked == SelectSeq(Indices(n), LAMBDA i : fs[i].attr)
        candidates == SelectSeq(Indices(n), LAMBDA i : ~fs[i].attr /\ fs[i].named_loc)
    IN  IF kind = "all" THEN find_Ok(Indices(n))
        ELSE IF kind = "new" THEN find_Ok(<<>>)
        ELSE IF kind = "named"
        THEN IF marked # <<>> THEN find_Ok(marked)
             ELSE IF Len(candidates) = 1 THEN find_Ok(candidates)
             ELSE find_Err
        ELSE IF n = 1 THEN find_Ok(<<1>>)
             ELSE IF marked # <<>> THEN find_Ok(marked)
             ELSE find_Err

\* `res.extend(Located::loc(&self.#rest));` for the fields idx[k], idx[k+1], ...
RECURSIVE extend_rest(_, _, _, _)
extend_rest(locd, fs, idx, k) ==
    IF k > Len(idx) THEN locd
    ELSE extend_rest(Loc_extend(locd, fs[idx[k]].loc), fs, idx, k + 1)

\* derive_located.rs: the impl handle_struct generates (the found indices
\* are already ascending, so the sort changes nothing).
handle_struct(kind, fs) ==
    LET loc_fields == find_loc_fields(kind, fs).idx
    IN  IF loc_fields = <<>> THEN Loc_new
        ELSE IF Len(loc_fields) = 1 THEN fs[loc_fields[1]].loc
        ELSE extend_rest(fs[loc_fields[1]].loc, fs, loc_fields, 2)

\* derive_located.rs: the match arm handle_enum generates for one variant.
handle_enum(kind, fs) ==
    LET loc_fields == find_loc_fields(kind, fs).idx
    IN  IF loc_fields = <<>> THEN Loc_new
        ELSE extend_rest(fs[loc_fields[1]].loc, fs, loc_fields, 2)

\* loc/spec.rs: located_tuple_impl!, Located::loc of (T1, ..., Tn).
Tuple_loc(fs) == extend_rest(fs[1].loc, fs, Indices(Len(fs)), 2)

\* loc/spec.rs: the loop of <HashMap<K, V> as Located>::loc from the k-th
\* value on; res is None or Some(loc).
RECURSIVE HashMap_loc_from(_, _, _)
HashMap_loc_from(locd, values, k) ==
    IF k > Len(values) THEN locd
    ELSE LET elem == values[k].loc
             slot == IF locd = None THEN elem ELSE locd.v
         IN  HashMap_loc_from([some |-> TRUE, v |-> Loc_extend(slot, elem)], values, k + 1)

\* loc/spec.rs: <HashMap<K, V> as Located>::loc
HashMap_loc(values) ==
    LET locd == HashMap_loc_from(None, values, 1)
    IN  IF locd = None THEN Loc_new ELSE locd.v

FieldLocs ==
    { [source |-> Some(1), range |-> [pos |-> 0, len |-> Fixed(1)]],
      [source |-> Some(1), range |-> [pos |-> 2, len |-> Fixed(1)]],
      [source |-> Some(2), range |-> [pos |-> 1, len |-> Fixed(1)]] }

Field == [loc : FieldLocs, attr : BOOLEAN, named_loc : BOOLEAN]

\* Field names are distinct: at most one field is named `loc`.
FieldLists ==
    { fs \in UNION { [1..n -> Field] : n \in 0..MaxFields } :
        \A i, j \in DOMAIN fs : (fs[i].named_loc /\ fs[j].named_loc) => i = j }

InitLocated ==
    /\ op = "none"
    /\ overflow_checks = TRUE
    /\ third = Range_empty
    /\ fields \in FieldLists
    /\ turns = 0
    /\ StreamIdle
    /\ ArgIdle
    /\ RangeIdle
    /\ LocIdle
    /\ NibbleIdle

LocatedFrame ==
    UNCHANGED <<auxVars, argVars, streamVars, rangeVars, loc, loc_other, nibbleVars>>

StructOp ==
    [all |-> "struct_all", new |-> "struct_new", named |-> "struct_named",
     unnamed |-> "struct_unnamed"]

VariantOp ==
    [all |-> "variant_all", new |-> "variant_new", named |-> "variant_named",
     unnamed |-> "variant_unnamed"]

\* (f1, ..., fn).loc() for a tuple of 1 to 16 Located values
tuple_loc ==
    /\ op = "none"
    /\ Len(fields) \in 1..16
    /\ loc_ret' = Tuple_loc(fields)
    /\ op' = "tuple"
    /\ LocatedFrame

\* s.loc() for a struct deriving Located; the derive compiles only when the
\* field search succeeds.
struct_loc ==
    /\ op = "none"
    /\ \E kind \in Kinds :
           /\ find_loc_fields(kind, fields).ok
           /\ loc_ret' = handle_struct(kind, fields)
           /\ op' = StructOp[kind]
    /\ LocatedFrame

\* v.loc() for a value that is one variant of an enum deriving Located
variant_loc ==
    /\ op = "none"
    /\ \E kind \in Kinds :
           /\ find_loc_fields(kind, fields).ok
           /\ loc_ret' = handle_enum(kind, fields)
           /\ op' = VariantOp[kind]
    /\ LocatedFrame

\* m.loc() for a HashMap whose values() come in the order of `fields`
hashmap_loc ==
    /\ op = "none"
    /\ loc_ret' = HashMap_loc(fields)
    /\ op' = "hashmap"
    /\ LocatedFrame

NextLocated == tuple_loc \/ struct_loc \/ variant_loc \/ hashmap_loc

SpecLocated == InitLocated /\ [][NextLocated]_vars

(***************************************************************************)
(* A Loc over any range, sliced by any range.                              *)
(***************************************************************************)
InitLocSlice ==
    /\ op = "none"
    /\ AuxIdle
    /\ StreamIdle
    /\ ArgIdle
    /\ self = Range_empty
    /\ other \in Range
    /\ ret = Range_empty
    /\ loc \in [source : Sources, range : Range]
    /\ loc_other = Loc_new
    /\ loc_ret = loc
    /\ NibbleIdle

\* loc.slice(other)
loc_slice ==
    /\ op = "none"
    /\ loc_ret' = Loc_slice(loc, other)
    /\ op' = "loc_slice"
    /\ UNCHANGED <<auxVars, argVars, streamVars, rangeVars, loc, loc_other, nibbleVars>>

\* loc.shrink(other)
loc_shrink ==
    /\ op = "none"
    /\ loc_ret' = Loc_shrink(loc, other)
    /\ op' = "loc_shrink"
    /\ UNCHANGED <<auxVars, argVars, streamVars, rangeVars, loc, loc_other, nibbleVars>>

NextLocSlice == loc_slice \/ loc_shrink

SpecLocSlice == InitLocSlice /\ [][NextLocSlice]_vars

(***************************************************************************)
(* The tag parsers on a buffer: a stream and a slice over the same         *)
(* elements, the tag parsed by value and by reference, alone and repeated  *)
(* by Vec<T>.                                                              *)
(***************************************************************************)
InitTag ==
    /\ op = "none"
    /\ AuxIdle
    /\ StreamIdle
    /\ ArgIdle
    /\ RangeIdle
    /\ LocIdle
    /\ TAG \in SeqsUpTo(Bytes, MaxTagLen)
    /\ data \in SeqsUpTo(Bytes, MaxLen)
    /\ pos = 0
    /\ input = Slice_with_raw_id(as_ptr(data), data)
    /\ pc = "idle" /\ res = <<>> /\ out = Nothing /\ calls = <<>>
    /\ pos0 = 0 /\ input0 = input

\* CopiedStream::next, called by the stream's owner.
next ==
    /\ pc = "idle"
    /\ LET n == CopiedStream_next(data, pos)
       IN  /\ pos' = n.pos
           /\ out' = n.res
    /\ pos0' = pos
    /\ op' = "next"
    /\ UNCHANGED <<auxVars, argVars, streamVars, rangeVars, locVars, TAG, data, input, pc, res, calls, input0>>

\* impls/tag.rs: T::parse(input) for a Tag.
tag_parse ==
    /\ pc = "idle" /\ op = "none"
    /\ out' = Tag_parse(TAG, input)
    /\ calls' = <<>>
    /\ op' = "Tag::parse(value)"
    /\ pc' = "done"
    /\ UNCHANGED <<auxVars, argVars, streamVars, rangeVars, locVars, TAG, data, pos, input, res, pos0, input0>>

\* impls/utf8_tag.rs: T::parse(input) for a Utf8Tag.
utf8_tag_parse_value ==
    /\ pc = "idle" /\ op = "none"
    /\ out' = Utf8Tag_parse_value(TAG, input)
    /\ calls' = <<>>
    /\ op' = "Utf8Tag::parse(value)"
    /\ pc' = "done"
    /\ UNCHANGED <<auxVars, argVars, streamVars, rangeVars, locVars, TAG, data, pos, input, res, pos0, input0>>

\* utf8_tag.rs: T::parse(&stream) for a Utf8Tag.
utf8_tag_parse ==
    /\ pc = "idle"
    /\ LET r == Utf8Tag_parse(TAG, data, pos)
       IN  /\ pos' = r.pos
           /\ out' = r.res
    /\ pos0' = pos
    /\ calls' = <<>>
    /\ op' = "Utf8Tag::parse"
    /\ pc' = "done"
    /\ UNCHANGED <<auxVars, argVars, streamVars, rangeVars, locVars, TAG, data, input, res, input0>>

\* vec.rs: Vec<T>::parse(&stream) up to the loop.
vec_parse_begin ==
    /\ pc = "idle"
    /\ res' = <<>>
    /\ calls' = <<>>
    /\ pos0' = pos
    /\ out' = Nothing
    /\ op' = "Vec::parse"
    /\ pc' = "loop"
    /\ UNCHANGED <<auxVars, argVars, streamVars, rangeVars, locVars, TAG, data, pos, input, input0>>

\* vec.rs: one turn of the loop, r being what input.parse::<T>() did.
vec_parse_turn(r) ==
    LET it == Vec_parse_iter(res, r.res)
    IN  /\ it.loop => Len(res) < MaxItems
        /\ pos' = r.pos
        /\ calls' = Append(calls, r.res)
        /\ res' = it.res
        /\ out' = it.out
        /\ pc' = IF it.loop THEN "loop" ELSE "done"
        /\ UNCHANGED <<auxVars, argVars, streamVars, op, rangeVars, locVars, TAG, data, input, pos0, input0>>

\* Vec<T>::parse for T: Utf8Tag.
vec_parse_iter_utf8_tag ==
    /\ pc = "loop" /\ op = "Vec::parse"
    /\ vec_parse_turn(Utf8Tag_parse(TAG, data, pos))

\* vec.rs: a turn of the loop after MaxItems items.  The item is pushed like
\* the ones before it; res and calls keep the first MaxItems only, and turns
\* counts the turns that are not kept.
vec_parse_iter_utf8_tag_on ==
    /\ pc = "loop" /\ op = "Vec::parse"
    /\ Len(res) = MaxItems
    /\ LET r == Utf8Tag_parse(TAG, data, pos)
       IN  /\ Vec_parse_iter(res, r.res).loop
           /\ pos' = r.pos
    /\ turns' = (turns + 1) % 2
    /\ UNCHANGED <<overflow_checks, third, fields, argVars, streamVars, op, rangeVars, locVars,
                   TAG, data, input, pc, res, out, calls, pos0, input0>>

\* impls/vec.rs: Vec<T>::parse(input) up to the loop.
vec_parse_value_begin ==
    /\ pc = "idle" /\ op = "none"
    /\ res' = <<>>
    /\ calls' = <<>>
    /\ input0' = input
    /\ out' = Nothing
    /\ op' = "Vec::parse(value)"
    /\ pc' = "loop"
    /\ UNCHANGED <<auxVars, argVars, streamVars, rangeVars, locVars, TAG, data, pos, input, pos0>>

\* impls/vec.rs: one turn of the loop, r being what input.parse::<T>() returned.
vec_parse_value_turn(r) ==
    LET it == Vec_parse_value_iter(res, input, r)
    IN  /\ it.loop => Len(res) < MaxItems
        /\ input' = it.input
        /\ calls' = Append(calls, r)
        /\ res' = it.res
        /\ out' = it.out
        /\ pc' = IF it.loop THEN "loop" ELSE "done"
        /\ UNCHANGED <<auxVars, argVars, streamVars, op, rangeVars, locVars, TAG, data, pos, pos0, input0>>

\* Vec<T>::parse for T: Tag.
vec_parse_value_iter_tag ==
    /\ pc = "loop" /\ op = "Vec::parse(value)"
    /\ vec_parse_value_turn(Tag_parse(TAG, input))

\* impls/vec.rs: a turn of the loop after MaxItems items, as above.
vec_parse_value_iter_tag_on ==
    /\ pc = "loop" /\ op = "Vec::parse(value)"
    /\ Len(res) = MaxItems
    /\ LET it == Vec_parse_value_iter(res, input, Tag_parse(TAG, input))
       IN  /\ it.loop
           /\ input' = it.input
    /\ turns' = (turns + 1) % 2
    /\ UNCHANGED <<overflow_checks, third, fields, argVars, streamVars, op, rangeVars, locVars,
                   TAG, data, pos, pc, res, out, calls, pos0, input0>>

NextTag ==
    \/ next
    \/ tag_parse
    \/ utf8_tag_parse_value
    \/ utf8_tag_parse
    \/ vec_parse_begin
    \/ vec_parse_iter_utf8_tag
    \/ vec_parse_value_begin
    \/ vec_parse_value_iter_tag
    \/ vec_parse_iter_utf8_tag_on
    \/ vec_parse_value_iter_tag_on

SpecTag == InitTag /\ [][NextTag]_vars

\* A call that has started keeps running: the loop takes its next turn
\* whenever it has one.
SpecTagFair == SpecTag /\ WF_vars(NextTag)

(***************************************************************************)
(* The composites over any element parser T: Option<T> and Vec<T>, by      *)
(* value and by reference.  T does not read a tag, and what it returns is  *)
(* not a function of the elements, so one buffer of each length is enough. *)
(***************************************************************************)
InitVec ==
    /\ op = "none"
    /\ AuxIdle
    /\ StreamIdle
    /\ ArgIdle
    /\ RangeIdle
    /\ LocIdle
    /\ TAG = <<>>
    /\ data \in {b \in SeqsUpTo(Bytes, MaxLen) : \A i \in DOMAIN b : b[i] = 1}
    /\ pos = 0
    /\ input = Slice_with_raw_id(as_ptr(data), data)
    /\ pc = "idle" /\ res = <<>> /\ out = Nothing /\ calls = <<>>
    /\ pos0 = 0 /\ input0 = input

\* impls/option.rs: Option<T>::parse(input).
option_parse ==
    /\ pc = "idle" /\ op = "none"
    /\ \E r \in T_parse_value(input) :
           /\ calls' = <<r>>
           /\ out' = Option_parse(r, input)
    /\ op' = "Option::parse(value)"
    /\ pc' = "done"
    /\ UNCHANGED <<auxVars, argVars, streamVars, rangeVars, locVars, TAG, data, pos, input, res, pos0, input0>>

\* Vec<T>::parse(&stream) for any T.
vec_parse_iter ==
    /\ pc = "loop" /\ op = "Vec::parse"
    /\ \E r \in T_parse(data, pos) : vec_parse_turn(r)

\* Vec<T>::parse(input) for any T.
vec_parse_value_iter ==
    /\ pc = "loop" /\ op = "Vec::parse(value)"
    /\ \E r \in T_parse_value(input) : vec_parse_value_turn(r)

NextVec ==
    \/ next
    \/ option_parse
    \/ vec_parse_begin
    \/ vec_parse_iter
    \/ vec_parse_value_begin
    \/ vec_parse_value_iter

SpecVec == InitVec /\ [][NextVec]_vars

(***************************************************************************)
(* A slice-backed stream s and a clone c of it: next, clone and commit in  *)
(* any order.  next does not look at the elements, so one buffer of each   *)
(* length is enough; its elements cycle through the element values.        *)
(***************************************************************************)
Call(on, fn, r) == [on |-> on, fn |-> fn, ret |-> r]

Cloned == \E i \in DOMAIN log : log[i].fn = "clone"

InitStream ==
    /\ op = "none"
    /\ AuxIdle
    /\ RangeIdle
    /\ LocIdle
    /\ TAG = <<>>
    /\ data \in {[i \in 1..k |-> ((i - 1) % NumBytes) + 1] : k \in 0..MaxLen}
    /\ pos = 0
    /\ input = Slice_with_raw_id(as_ptr(data), data)
    /\ pc = "idle" /\ res = <<>> /\ out = Nothing /\ calls = <<>>
    /\ pos0 = 0 /\ input0 = input
    /\ stream \in StreamTypes
    /\ c_pos = 0
    /\ log = <<>>
    /\ ArgIdle

\* s.next()
stream_next ==
    /\ Len(log) < MaxCalls
    /\ LET n == ParseStream_next(stream, data, pos)
       IN  /\ pos' = n.pos
           /\ out' = n.res
           /\ log' = Append(log, Call("s", "next", n.res))
    /\ op' = "next"
    /\ UNCHANGED <<auxVars, argVars, rangeVars, locVars, TAG, data, input, pc, res, calls, pos0, input0, stream, c_pos>>

\* let c = s.clone()
stream_clone ==
    /\ Len(log) < MaxCalls
    /\ ~Cloned
    /\ LET c == ParseStream_clone(stream, data, pos)
       IN  /\ c_pos' = c.pos
           /\ log' = Append(log, Call("s", "clone", c))
    /\ op' = "clone"
    /\ UNCHANGED <<auxVars, argVars, rangeVars, locVars, nibbleVars, stream>>

\* s.commit()
stream_commit ==
    /\ Len(log) < MaxCalls
    /\ LET s == ParseStream_commit(stream, data, pos)
       IN  /\ pos' = s.pos
           /\ data' = s.slice
           /\ log' = Append(log, Call("s", "commit", Nothing))
    /\ op' = "commit"
    /\ UNCHANGED <<auxVars, argVars, rangeVars, locVars, TAG, input, pc, res, out, calls, pos0, input0, stream, c_pos>>

\* c.next()
clone_next ==
    /\ Len(log) < MaxCalls
    /\ Cloned
    /\ LET n == ParseStream_next(stream, data, c_pos)
       IN  /\ c_pos' = n.pos
           /\ out' = n.res
           /\ log' = Append(log, Call("c", "next", n.res))
    /\ op' = "next"
    /\ UNCHANGED <<auxVars, argVars, rangeVars, locVars, TAG, data, pos, input, pc, res, calls, pos0, input0, stream>>

\* c.commit()
clone_commit ==
    /\ Len(log) < MaxCalls
    /\ Cloned
    /\ LET c == ParseStream_commit(stream, data, c_pos)
       IN  /\ c_pos' = c.pos
           /\ data' = c.slice
           /\ log' = Append(log, Call("c", "commit", Nothing))
    /\ op' = "commit"
    /\ UNCHANGED <<auxVars, argVars, rangeVars, locVars, TAG, pos, input, pc, res, out, calls, pos0, input0, stream>>

NextStream ==
    \/ stream_next
    \/ stream_clone
    \/ stream_commit
    \/ clone_next
    \/ clone_commit

SpecStream == InitStream /\ [][NextStream]_vars

(***************************************************************************)
(* Claims                                                                  *)
(***************************************************************************)
\* The sum of two offsets as the data model defines it: clipped to U64_MAX.
Sum(x, y) == IF x + y >= U64_MAX THEN U64_MAX ELSE x + y

Least(x, y) == IF x < y THEN x ELSE y

Most(x, y) == IF x < y THEN y ELSE x

\* C1: after shrink or slice, a Fixed(lhs) receiver starts at
\* self.pos + delta with delta = min(other.pos, lhs) and has length
\* min(rhs, lhs - delta) against Fixed(rhs), lhs - delta against Indefinite;
\* an Indefinite receiver starts at self.pos + other.pos and takes exactly
\* other.len.  (Sums are those of the data model: clipped to the maximum.)
C1_ShrinkComputesSubRange ==
    op \in {"shrink", "slice"} =>
        IF self.len.fixed
        THEN LET lhs == self.len.n
                 delta == Least(other.pos, lhs)
             IN  /\ ret.pos = Sum(self.pos, delta)
                 /\ ret.len.fixed
                 /\ ret.len.n = IF other.len.fixed
                                THEN Least(other.len.n, lhs - delta)
                                ELSE lhs - delta
        ELSE /\ ret.pos = Sum(self.pos, other.pos)
             /\ ret.len = other.len

\* A shrink whose offset was clipped by the receiver's length and whose
\* length was clipped by what remained of it.
C1_Witness ==
    /\ op = "shrink"
    /\ self.len.fixed /\ other.len.fixed
    /\ other.pos > self.len.n
    /\ self.len.n > 0
    /\ ret.pos = self.pos + self.len.n
    /\ ret.len = Fixed(0)

\* C2: for fixed ranges A and B, A.extend(B) == B.extend(A), and the result
\* starts at min(A.pos, B.pos) and ends at max(A.pos + A.len, B.pos + B.len),
\* the sums saturating.
C2_ExtendCommutative ==
    (op \in {"extend", "join"} /\ self.len.fixed /\ other.len.fixed) =>
        LET ba == IF op = "extend" THEN Range_extend(other, self) ELSE Range_join(other, self)
        IN  /\ Range_eq(ret, ba)
            /\ ret.pos = Least(self.pos, other.pos)
            /\ ret.len.fixed
            /\ ret.pos + ret.len.n
                 = Most(Sum(self.pos, self.len.n), Sum(other.pos, other.len.n))

\* Two disjoint fixed ranges, the argument to the right and saturating.
C2_Witness ==
    /\ op = "extend"
    /\ self.len.fixed /\ other.len.fixed
    /\ self.pos + self.len.n < other.pos
    /\ other.pos + other.len.n > U64_MAX
    /\ ret = [pos |-> self.pos, len |-> Fixed(U64_MAX - self.pos)]

SourcesMatch(x, y) ==
    \/ x.source = None /\ y.source = None
    \/ x.source # None /\ y.source # None /\ x.source.id = y.source.id

\* C3: Loc::extend / Loc::join merge the ranges (result range ==
\* a.range.extend(b.range)) only when the sources match; otherwise the result
\* is a, unchanged in source and range.  The result's source is always
\* a.source.
C3_LocExtendSources ==
    op \in {"loc_extend", "loc_join"} =>
        /\ loc_ret.source = loc.source
        /\ SourcesMatch(loc, loc_other) =>
               loc_ret.range = Range_extend(loc.range, loc_other.range)
        /\ ~SourcesMatch(loc, loc_other) => loc_ret = loc

\* A join across differing sources whose ranges would have merged.
C3_Witness ==
    /\ op = "loc_join"
    /\ loc.source # None /\ loc_other.source # None
    /\ loc.source # loc_other.source
    /\ Range_extend(loc.range, loc_other.range) # loc.range
    /\ loc_ret = loc

\* C4: the by-value tag parser, for a tag of n elements on an input of m
\* elements: if one of the first min(n, m) elements differs from the tag it is
\* Unmatched with no Needed hint; otherwise if m < n it is Unmatched with
\* Needed::Bounded(n - m, n - m); otherwise it succeeds, the Loc spanning
\* [0, n) of the input's source and the remainder starting at element n.
C4_TagParseByValue ==
    op \in {"Tag::parse(value)", "Utf8Tag::parse(value)"} =>
        LET n == Len(TAG)
            m == Len(data)
        IN  IF \E i \in 1..Least(n, m) : data[i] # TAG[i]
            THEN out = ErrUnmatched(NoNeeded)
            ELSE IF m < n
            THEN out = ErrUnmatched(SomeNeeded(Bounded(n - m, n - m)))
            ELSE /\ out.tag = "Ok"
                 /\ out.val = with_loc([source |-> Some(input.id),
                                        range |-> [pos |-> 0, len |-> Fixed(n)]])
                 /\ out.rem.id = input.id
                 /\ out.rem.off = n
                 /\ out.rem.elems = [i \in 1..(m - n) |-> data[n + i]]

\* The input ends one element short of a tag it matched so far.
C4_Witness ==
    /\ op = "Tag::parse(value)"
    /\ Len(data) > 0
    /\ Len(TAG) = Len(data) + 1
    /\ out = ErrUnmatched(SomeNeeded(Bounded(1, 1)))

\* C5: Option<T>::parse maps what T::parse returned: a match (v, rem) to
\* (Some(v), rem); Unmatched, with or without a Needed hint, to a successful
\* (None, input) with the input unchanged; a hard Error to itself.  It never
\* returns Unmatched.
C5_OptionParseMapping ==
    op = "Option::parse(value)" =>
        LET r == calls[1]
        IN  /\ r.tag = "Ok" => out = Ok(OptSome(r.val), r.rem)
            /\ r.tag = "Unmatched" => out = Ok(OptNone, input0)
            /\ r.tag = "Error" => out = r
            /\ out.tag # "Unmatched"

\* T did not match and said that more input may fix it.
C5_Witness ==
    /\ op = "Option::parse(value)"
    /\ calls[1].tag = "Unmatched"
    /\ calls[1].needed.hint
    /\ Len(input0.elems) > 0
    /\ out = Ok(OptNone, input0)

\* C6: in the by-reference Vec<T>::parse, when the first k calls of T::parse
\* succeed and the next returns the syntax error e, the call returns
\* NibbleError::Syntax(Error { pos: k, err: e }); a Stream error is returned
\* as it is.
C6_VecErrorIndex ==
    (op = "Vec::parse" /\ pc = "done") =>
        LET k == Len(calls) - 1
            last == calls[Len(calls)]
        IN  /\ \A i \in 1..k : calls[i].tag = "Some"
            /\ last.tag = "Syntax" => out = ErrSyntax([pos |-> k, err |-> last.err])
            /\ last.tag = "Stream" => out = last

\* The third element fails: index 2.
C6_Witness ==
    /\ op = "Vec::parse" /\ pc = "done"
    /\ Len(calls) = 3
    /\ calls[3].tag = "Syntax"
    /\ out = ErrSyntax([pos |-> 2, err |-> calls[3].err])

\* C7: a by-reference Vec<T>::parse of a Utf8Tag that matches zero times
\* returns an empty collection and leaves the cursor where it was.
C7_ZeroMatchesConsumeNothing ==
    (op = "Vec::parse" /\ pc = "done" /\ Len(calls) = 1) =>
        /\ out = OkSome(<<>>)
        /\ pos = pos0

\* C8: the by-value Vec<T>::parse returns the remainder of the last
\* successful T::parse; with no match it returns an empty Vec and the input
\* it was given.
C8_VecValueRemainder ==
    (op = "Vec::parse(value)" /\ pc = "done" /\ out.tag = "Ok") =>
        LET k == Len(calls) - 1
        IN  /\ \A i \in 1..k : calls[i].tag = "Ok"
            /\ calls[k + 1].tag = "Unmatched"
            /\ k = 0 => out.val = <<>> /\ out.rem = input0
            /\ k > 0 => out.rem = calls[k].rem

\* Two matches, the last one of at least one element, then a non-match that
\* asked for more input, with elements left.
C8_Witness ==
    /\ op = "Vec::parse(value)" /\ pc = "done"
    /\ Len(calls) = 3
    /\ calls[3].tag = "Unmatched" /\ calls[3].needed.hint
    /\ calls[2].rem.off > calls[1].rem.off
    /\ Len(calls[2].rem.elems) > 0
    /\ out.tag = "Ok" /\ out.rem = calls[2].rem

Matched(r) == r.tag \in {"Some", "Ok"}

NonMatch(r) == r.tag \in {"None", "Unmatched"}

Failure(r) == r.tag \in {"Syntax", "Stream", "Error"}

C10_UnmatchedKeepsCursor ==
    (op = "Utf8Tag::parse" /\ out = OkNone) => pos = pos0

\* What the calls lo..hi of the log that were a next() on `on` returned.
Nexts(on, lo, hi) ==
    LET made == SubSeq(log, lo, hi)
        IsNext(c) == c.on = on /\ c.fn = "next"
        sel == SelectSeq(made, IsNext)
    IN  [i \in 1..Len(sel) |-> sel[i].ret]

\* What m calls of next() from position p0 of a buffer at address base are to
\* return: each element with the singleton range at its index, then None.
Yields(buf, base, p0, m) ==
    [i \in 1..m |->
        IF p0 + i - 1 < Len(buf)
        THEN OkSome([elem |-> buf[p0 + i],
                     loc |-> [source |-> Some(base),
                              range |-> [pos |-> p0 + i - 1, len |-> Fixed(1)]]])
        ELSE OkNone]

\* C11: on a slice-backed stream over n elements, the k-th next() of a fresh
\* stream returns element k with Loc { Some(base address), [k, k+1) } for
\* k < n and None afterwards, the position staying at n; the cursor is always
\* within 0..=n.
C11_NextYieldsSingletons ==
    LET ys == Nexts("s", 1, Len(log))
        n == Len(data)
    IN  /\ ys = Yields(data, as_ptr(data), 0, Len(ys))
        /\ pos = Least(Len(ys), n)
        /\ pos \in 0..n
        /\ c_pos \in 0..n

\* Two elements, then two calls at the end.
C11_Witness ==
    /\ Len(data) = 2
    /\ ~Cloned
    /\ LET ys == Nexts("s", 1, Len(log))
       IN  /\ Len(ys) = 4
           /\ ys[2] = OkSome([elem |-> data[2],
                              loc |-> [source |-> Some(as_ptr(data)),
                                       range |-> [pos |-> 1, len |-> Fixed(1)]]])
           /\ ys[3] = OkNone /\ ys[4] = OkNone
    /\ pos = 2

CloneAt == CHOOSE i \in DOMAIN log : log[i].fn = "clone"

\* C12: after c = s.clone(), c is a cursor over the same backing store; the
\* position of each cursor is moved by its own next() calls only, and both
\* yield the same elements and Locs from the position at which the clone was
\* taken.
C12_CloneIndependent ==
    Cloned =>
        LET j == CloneAt
            n == Len(data)
            at == Least(Len(Nexts("s", 1, j)), n)
            sA == Nexts("s", j + 1, Len(log))
            cA == Nexts("c", j + 1, Len(log))
        IN  /\ log[j].ret.slice = data
            /\ \A i \in 1..Least(Len(sA), Len(cA)) : sA[i] = cA[i]
            /\ sA = Yields(data, as_ptr(data), at, Len(sA))
            /\ cA = Yields(data, as_ptr(data), at, Len(cA))
            /\ pos = Least(at + Len(sA), n)
            /\ c_pos = Least(at + Len(cA), n)

\* A clone taken after one element; the clone read two more, the original one.
C12_Witness ==
    /\ Cloned
    /\ Len(data) = 3
    /\ LET j == CloneAt
           sA == Nexts("s", j + 1, Len(log))
           cA == Nexts("c", j + 1, Len(log))
       IN  /\ j = 2
           /\ Len(sA) = 1 /\ Len(cA) = 2
           /\ sA[1] = cA[1]
           /\ cA[2].tag = "Some"
    /\ pos = 2 /\ c_pos = 3

RECURSIVE Replay(_, _, _, _)
\* m calls of next() in a row, and nothing else, from position p.
Replay(ty, buf, p, m) ==
    IF m = 0 THEN <<>>
    ELSE LET n == ParseStream_next(ty, buf, p)
         IN  <<n.res>> \o Replay(ty, buf, n.pos, m - 1)

IsCommit == Len(log') = Len(log) + 1 /\ log'[Len(log')].fn = "commit"

\* C13: commit() on a slice-backed stream changes neither the cursor nor the
\* backing store, and whatever commits are interleaved, the next() calls
\* return what the same next() calls return without them.
C13_CommitIsNoOp ==
    /\ [](Nexts("s", 1, Len(log)) = Replay(stream, data, 0, Len(Nexts("s", 1, Len(log)))))
    /\ [][IsCommit => (pos' = pos /\ c_pos' = c_pos /\ data' = data)]_vars

\* next, commit, next on two elements or more: the second element comes.
C13_Witness ==
    /\ Len(log) = 3
    /\ log[1].fn = "next" /\ log[2].fn = "commit" /\ log[3].fn = "next"
    /\ log[3].ret.tag = "Some"
    /\ log[3].ret.val.elem = data[2]
    /\ pos = 2

\* C14: A.shrink(B) lies inside A: it starts at or after A's start and, when
\* A is Fixed, ends at or before A's end; when B starts at or beyond A's
\* length the result is empty (Fixed(0)) at A's end boundary; start and length
\* are always values of u64 (no subtraction underflows).
C14_ShrinkInsideFootprint ==
    op \in {"shrink", "slice"} =>
        /\ ret.pos \in U64 /\ ret.len.n \in U64
        /\ ret.pos >= self.pos
        /\ self.len.fixed =>
               /\ ret.len.fixed
               /\ ret.pos + ret.len.n <= self.pos + self.len.n
               /\ Sum(ret.pos, ret.len.n) <= Sum(self.pos, self.len.n)
        /\ (self.len.fixed /\ other.pos >= self.len.n) =>
               /\ ret.len = Fixed(0)
               /\ ret.pos = Sum(self.pos, self.len.n)

\* An open-ended argument that starts beyond a range whose end saturates.
C14_Witness ==
    /\ op = "shrink"
    /\ self.len.fixed /\ ~other.len.fixed
    /\ other.pos > self.len.n
    /\ self.pos + self.len.n > U64_MAX
    /\ ret = [pos |-> U64_MAX, len |-> Fixed(0)]

\* C15: for every range A, Fixed or Indefinite, A.shrink(Range::full()) == A.
C15_ShrinkByFullIsIdentity ==
    (op \in {"shrink", "slice"} /\ other = Range_full) =>
        /\ Range_eq(ret, self)
        /\ ret = self

\* A fixed range away from the origin, and an indefinite one.
C15_Witness ==
    /\ op = "shrink"
    /\ other = Range_full
    /\ self.pos > 0
    /\ self.len.fixed /\ self.len.n > 1
    /\ ret = self

\* C16: Range::extend (and join) starts at min(self.pos, other.pos); with
\* both lengths Fixed its length is the max of the two saturating ends minus
\* the new start; with either Indefinite its length is Indefinite.
C16_ExtendSmallestCover ==
    op \in {"extend", "join"} =>
        /\ ret.pos = Least(self.pos, other.pos)
        /\ IF self.len.fixed /\ other.len.fixed
           THEN ret.len = Fixed(Most(Sum(self.pos, self.len.n), Sum(other.pos, other.len.n))
                                  - Least(self.pos, other.pos))
           ELSE ret.len = Indefinite

\* A fixed range extended by an open-ended one that starts before it.
C16_Witness ==
    /\ op = "extend"
    /\ self.len.fixed /\ self.len.n > 0
    /\ ~other.len.fixed
    /\ other.pos < self.pos
    /\ ret = [pos |-> other.pos, len |-> Indefinite]

\* C17: Range::end_in(max_len), and Loc::end_in which delegates to it, is
\* max_len for an Indefinite range and min(pos + len, max_len), the sum
\* saturating, for a Fixed(len) one.
C17_EndInResolves ==
    /\ op = "end_in" =>
           val = IF self.len.fixed THEN Least(Sum(self.pos, self.len.n), arg_x) ELSE arg_x
    /\ op = "loc_end_in" =>
           val = IF loc.range.len.fixed
                 THEN Least(Sum(loc.range.pos, loc.range.len.n), arg_x)
                 ELSE arg_x

\* A fixed range of a Loc that ends, saturating, beyond the sequence.
C17_Witness ==
    /\ op = "loc_end_in"
    /\ loc.source # None
    /\ loc.range.len.fixed
    /\ loc.range.pos + loc.range.len.n > U64_MAX
    /\ arg_x < U64_MAX /\ arg_x > 0
    /\ val = arg_x

\* C18: two Fixed ranges are equal iff their pos are equal and their
\* saturating pos + len are equal; two Indefinite ranges are equal iff their
\* pos are equal; an Indefinite range never equals a Fixed one.
C18_EqComparesEndPoints ==
    op = "eq" =>
        val = IF self.len.fixed /\ other.len.fixed
              THEN self.pos = other.pos
                   /\ Sum(self.pos, self.len.n) = Sum(other.pos, other.len.n)
              ELSE IF ~self.len.fixed /\ ~other.len.fixed
              THEN self.pos = other.pos
              ELSE FALSE

\* Two ranges of different raw length whose ends both saturate.
C18_Witness ==
    /\ op = "eq"
    /\ self.len.fixed /\ other.len.fixed
    /\ self.len.n # other.len.n
    /\ self.pos + self.len.n > U64_MAX
    /\ val = TRUE

\* C19: Range::from(x..y) is { pos: x, len: Fixed(y - x) } for x <= y and an
\* empty range (Fixed(0), equal to `()`) for x > y; x.. is { x, Indefinite },
\* ..y is { 0, Fixed(y) }, .. is { 0, Indefinite } and () is { 0, Fixed(0) }.
C19_FromIntervals ==
    /\ op = "from(x..y)" =>
           IF arg_x <= arg_y
           THEN /\ ret = [pos |-> arg_x, len |-> Fixed(arg_y - arg_x)]
                /\ Range_eq(ret, [pos |-> arg_x, len |-> Fixed(arg_y - arg_x)])
           ELSE /\ ret.len = Fixed(0)
                /\ Range_eq_unit(ret)
    /\ op = "from(x..)" => ret = [pos |-> arg_x, len |-> Indefinite]
    /\ op = "from(..y)" => ret = [pos |-> 0, len |-> Fixed(arg_y)]
    /\ op = "from(..)" => ret = [pos |-> 0, len |-> Indefinite]
    /\ op = "from(())" => ret = [pos |-> 0, len |-> Fixed(0)]

\* An inverted interval.
C19_Witness ==
    /\ op = "from(x..y)"
    /\ arg_x > arg_y /\ arg_y > 0
    /\ ret = [pos |-> arg_x, len |-> Fixed(0)]

\* C20: Range::bounded(start, end), for start <= end, starts at `start` and
\* has `end` as its exclusive end: it equals Range::from(start..end).
C20_BoundedEqualsFrom ==
    (op = "bounded" /\ arg_x <= arg_y) =>
        /\ ret.pos = arg_x
        /\ Range_end(ret) = <<arg_y>>
        /\ Range_eq(ret, Range_from_range(arg_x, arg_y))

\* C21: no Range operation overflows: every end offset or length that end,
\* end_in, shrink, extend, equality, hashing, Debug/Display formatting and
\* the conversions from a..=b and ..=b compute is the saturating one, for all
\* inputs and in every build, never a wrapped value or a panic.
C21_NoOverflow ==
    /\ (op = "fmt" /\ self.len.fixed /\ self.len.n # 0) =>
           val.end = <<Sum(self.pos, self.len.n)>>
    /\ (op = "hash" /\ self.len.fixed) => val = <<self.pos, 0, Sum(self.pos, self.len.n)>>
    /\ (op = "end" /\ self.len.fixed) => val = <<Sum(self.pos, self.len.n)>>
    /\ op \in {"end_in", "loc_end_in"} => val \in U64
    /\ op \in {"shrink", "slice", "extend", "join"} => ret.pos \in U64 /\ ret.len.n \in U64
    /\ op = "eq" => val \in BOOLEAN
    /\ op = "from(x..=y)" =>
           ret.len.n = IF arg_x <= arg_y THEN Sum(1, arg_y - arg_x) ELSE 0
    /\ op = "from(..=y)" => ret.len.n = Sum(1, arg_y)

\* C22: Loc::slice / Loc::shrink change only the range: the source is L's
\* and the range is L.range.slice(R); for L = [p, p+l) and R = [a, a+b) the
\* result's start is p + min(a, l), its end is p + min(a + b, l) and its
\* end_in(n) is min(p + min(a + b, l), n) for every n.  (Offsets are those of
\* the data model: clipped to the maximum.)
C22_LocSliceKeepsSource ==
    op \in {"loc_slice", "loc_shrink"} =>
        /\ loc_ret.source = loc.source
        /\ loc_ret.range = Range_slice(loc.range, other)
        /\ (loc.range.len.fixed /\ other.len.fixed) =>
               LET p == loc.range.pos
                   l == loc.range.len.n
                   a == other.pos
                   b == other.len.n
               IN  /\ Loc_start(loc_ret) = Sum(p, Least(a, l))
                   /\ Loc_end(loc_ret) = <<Sum(p, Least(a + b, l))>>
                   /\ \A n \in U64 : Loc_end_in(loc_ret, n) = Least(p + Least(a + b, l), n)

\* A Loc in a source, sliced strictly inside its range.
C22_Witness ==
    /\ op = "loc_slice"
    /\ loc.source = Some(2)
    /\ loc.range = [pos |-> 1, len |-> Fixed(4)]
    /\ other = [pos |-> 1, len |-> Fixed(2)]
    /\ loc_ret = [source |-> Some(2), range |-> [pos |-> 2, len |-> Fixed(2)]]

\* C23: for all Locs a and b, a == b is true, a != b is false, cmp and
\* partial_cmp are Equal and hashing feeds nothing to the hasher, whatever
\* the sources and ranges; TestLoc(a) == TestLoc(b) holds iff the sources are
\* equal and the ranges are equal under Range equality.
C23_LocComparisons ==
    /\ op = "loc_eq" => val = TRUE
    /\ op = "loc_ne" => val = FALSE
    /\ op = "loc_cmp" => val = "Equal"
    /\ op = "loc_partial_cmp" => val = <<"Equal">>
    /\ op = "loc_hash" => val = <<>>
    /\ op = "testloc_eq" =>
           val = (loc.source = loc_other.source /\ Range_eq(loc.range, loc_other.range))

\* Two Locs of one source that differ in the range only: equal as Locs is
\* checked by loc_eq, here they differ as TestLocs.
C23_Witness ==
    /\ op = "testloc_eq"
    /\ loc.source = loc_other.source
    /\ loc.source # None
    /\ loc.range # loc_other.range
    /\ val = FALSE

\* The fields of a product that designate its location, in declaration order.
Designated(kind, fs) ==
    IF kind = "all" THEN fs
    ELSE IF kind = "new" THEN <<>>
    ELSE IF kind = "unnamed" /\ Len(fs) = 1 THEN fs
    ELSE IF \E i \in DOMAIN fs : fs[i].attr THEN SelectSeq(fs, LAMBDA f : f.attr)
    ELSE IF kind = "named" THEN SelectSeq(fs, LAMBDA f : f.named_loc)
    ELSE <<>>

\* f1.loc().extend(f2.loc())...extend(fn.loc())
RECURSIVE ExtendFold(_)
ExtendFold(fs) ==
    IF Len(fs) = 1 THEN fs[1].loc
    ELSE Loc_extend(ExtendFold(SubSeq(fs, 1, Len(fs) - 1)), fs[Len(fs)].loc)

KindOf ==
    [tuple |-> "all",
     struct_all |-> "all", struct_new |-> "new", struct_named |-> "named",
     struct_unnamed |-> "unnamed",
     variant_all |-> "all", variant_new |-> "new", variant_named |-> "named",
     variant_unnamed |-> "unnamed"]

\* C24: Located::loc of a product (a tuple, or a struct / enum variant
\* deriving Located) is the left-to-right extend fold over its designated
\* fields in declaration order; fields that are not designated, such as one
\* merely named `loc` next to #[loc] fields, do not contribute, and with one
\* designated field the result is exactly that field's Loc.
C24_ProductLocIsExtendFold ==
    op \in DOMAIN KindOf =>
        LET des == Designated(KindOf[op], fields)
        IN  /\ Len(des) >= 1 => loc_ret = ExtendFold(des)
            /\ Len(des) = 1 => loc_ret = des[1].loc

\* A struct with a field named `loc` that is not marked, before two marked
\* fields: the result covers the marked fields only.
C24_Witness ==
    /\ op = "struct_named"
    /\ Len(fields) = 3
    /\ fields[1].named_loc /\ ~fields[1].attr
    /\ fields[1].loc.range.pos = 2
    /\ fields[2].attr /\ fields[3].attr
    /\ fields[2].loc = fields[3].loc
    /\ fields[2].loc.range.pos = 0
    /\ fields[1].loc.source = fields[2].loc.source
    /\ loc_ret = fields[2].loc

\* Every order of visiting the values of a map.
Orders(values) ==
    LET n == Len(values)
    IN  { [i \in 1..n |-> values[p[i]]] :
            p \in { q \in [1..n -> 1..n] : \A i, j \in 1..n : q[i] = q[j] => i = j } }

\* C25: Located::loc of a HashMap does not depend on the iteration order:
\* every order of visiting the same values yields the same Loc under strict
\* comparison of source and range; an empty map yields Loc::new() and a map
\* with one value yields that value's Loc.
C25_HashMapOrderIndependent ==
    op = "hashmap" =>
        /\ \A values \in Orders(fields) : TestLoc_eq(loc_ret, HashMap_loc(values))
        /\ fields = <<>> => loc_ret = Loc_new
        /\ Len(fields) = 1 => loc_ret = fields[1].loc

\* The next Len(tg) elements of buf after the first p are tg.
TagAhead(tg, buf, p) ==
    /\ p + Len(tg) <= Len(buf)
    /\ \A i \in 1..Len(tg) : buf[p + i] = tg[i]

\* C26: the by-reference Utf8Tag::parse on a slice-backed stream at p, for a
\* tag of n bytes, returns Ok(Some(tag)) iff the next n elements equal the
\* tag, and then the tag's Loc has the stream's source id and the range
\* [p, p + n) and the cursor is at p + n; otherwise it returns Ok(None),
\* never an error.
C26_Utf8TagParseByRef ==
    op = "Utf8Tag::parse" =>
        LET n == Len(TAG)
            p == pos0
        IN  IF TagAhead(TAG, data, p)
            THEN /\ out = OkSome(with_loc([source |-> Some(as_ptr(data)),
                                           range |-> [pos |-> p, len |-> Fixed(n)]]))
                 /\ pos = p + n
            ELSE out = OkNone

\* C27: Vec<T>::parse terminates on every finite input for every element
\* parser T, also one that can match without consuming an element (a tag
\* whose TAG is empty): a call that has entered the loop eventually returns.
C27_VecParseTerminates == (pc = "loop") ~> (pc = "done")

C29_FromEqualsInterval ==
    op \in {EqOp[x] : x \in DOMAIN EqOp} => val = TRUE

\* C30: Loc::new() is neutral for merging: for every Loc a, a.join(Loc::new())
\* and Loc::new().join(a) equal a under strict comparison of source and
\* range.
C30_NewLocIsNeutral ==
    op = "loc_join" =>
        /\ loc_other = Loc_new => TestLoc_eq(loc_ret, loc)
        /\ loc = Loc_new => TestLoc_eq(loc_ret, loc_other)
====
